---- MODULE Spec2Model ----
(***************************************************************************)
(* lazyfs: a lazy, error-ignoring version of std::fs::read_dir.            *)
(*                                                                         *)
(* The model follows src/lib.rs.  A reader (enum ReadDir) is either        *)
(* Ok(rd), wrapping the operating system's listing handle rd, or Err.      *)
(* The operating system's side is modelled as far as the code observes it: *)
(* opening a path succeeds or fails according to the status of the path,   *)
(* and a listing handle delivers a finite sequence of raw slots, each a    *)
(* valid entry or a per-entry error, and then reports the end.             *)
(***************************************************************************)
EXTENDS Naturals, Sequences, FiniteSets

\* Longest raw listing a handle delivers.
MaxLen == 3

Readers == {"r1", "r2"}
Paths == {"p"}
Names == {"x", "y"}
Errnos == {"EIO"}
OpenErrors == {"ENOENT", "ENOTDIR", "EACCES"}
Statuses == {"dir"} \cup OpenErrors

\* A raw slot of std::fs::ReadDir: io::Result<DirEntry>.
OkSlot(n) == [ok |-> TRUE, val |-> n]
ErrSlot(e) == [ok |-> FALSE, val |-> e]
Slots == {OkSlot(n) : n \in Names} \cup {ErrSlot(e) : e \in Errnos}

SeqsUpTo(S, n) == UNION {[1..k -> S] : k \in 0..n}

\* The entries of a directory have distinct names.
DistinctNames(l) ==
    \A i, j \in 1..Len(l) : (i # j /\ l[i].ok /\ l[j].ok) => l[i].val # l[j].val

Listings == {l \in SeqsUpTo(Slots, MaxLen) : DistinctNames(l)}

\* Option values.
None == [kind |-> "None", val |-> "-"]
Some(v) == [kind |-> "Some", val |-> v]
NotCalled == [kind |-> "NotCalled", val |-> "-"]
Panic(e) == [kind |-> "Panic", val |-> e]

NoHandle == [slots |-> <<>>, pos |-> 0]

VARIABLES
    fs,       \* status of every path in the file system
    self,     \* the ReadDir value of every reader: "Unborn", "Ok" or "Err"
    rd,       \* the std::fs::ReadDir handles, by handle
    pc,       \* position of the reader's next() call: "idle" or "loop"
    ret,      \* what the last next() call returned
    out,      \* the entries next() has returned so far, in order
    reads,    \* rd.next() calls made by the current (or last) next() call
    ended,    \* next() has returned None at least once
    again,    \* next() has been called after it had returned None
    openRes   \* what std::fs::read_dir answered when the reader was made

vars == <<fs, self, rd, pc, ret, out, reads, ended, again, openRes>>

\* std::fs::read_dir(path): the result of the operating system's open.
OsOpen(status) == IF status = "dir" THEN "ok" ELSE status

\* rd.next() of std::fs::ReadDir: the next raw slot, or None at the end.
\* At the end the handle stays at the end.
OsNext(h) ==
    IF h.pos < Len(h.slots)
    THEN [item |-> Some(h.slots[h.pos + 1]), rd |-> [h EXCEPT !.pos = h.pos + 1]]
    ELSE [item |-> None, rd |-> h]

HandleOfShared(r) == "r1"

\* ReadDir::Ok(std::fs::ReadDir): every reader holds its handle by value.
HandleOf(r) == r

ReadDirTagOnlyNoent(res) == IF res = "ENOENT" THEN "Err" ELSE "Ok"

\* read_dir: the match on the result of std::fs::read_dir.
ReadDirTag(res) == IF res = "ok" THEN "Ok" ELSE "Err"

NewHandleScanned(l) == [slots |-> l, pos |-> Len(l)]

\* read_dir: Ok(rd) => ReadDir::Ok(rd), the handle as the system opened it.
NewHandle(l) == [slots |-> l, pos |-> 0]

NextOnErrPanics == Panic("Err")

\* ReadDir::next, the arm ReadDir::Err => None.
NextOnErr == None

MatchItemDropsEntry(item) ==
    IF item.kind = "Some"
    THEN [done |-> FALSE, value |-> None]
    ELSE [done |-> TRUE, value |-> None]

MatchItemStopsAtError(item) ==
    IF item.kind = "Some"
    THEN IF item.val.ok
         THEN [done |-> TRUE, value |-> Some(item.val.val)]
         ELSE [done |-> TRUE, value |-> None]
    ELSE [done |-> TRUE, value |-> None]

MatchItemUnwraps(item) ==
    IF item.kind = "Some"
    THEN IF item.val.ok
         THEN [done |-> TRUE, value |-> Some(item.val.val)]
         ELSE [done |-> TRUE, value |-> Panic(item.val.val)]
    ELSE [done |-> TRUE, value |-> None]

MatchItemSpinsAtEnd(item) ==
    IF item.kind = "Some"
    THEN IF item.val.ok
         THEN [done |-> TRUE, value |-> Some(item.val.val)]
         ELSE [done |-> FALSE, value |-> None]
    ELSE [done |-> FALSE, value |-> None]

\* ReadDir::next, the match inside the loop: what one iteration decides.
\* done: the call returns; value: what it returns.
MatchItem(item) ==
    IF item.kind = "Some"
    THEN IF item.val.ok
         THEN [done |-> TRUE, value |-> Some(item.val.val)]
         ELSE [done |-> FALSE, value |-> None]
    ELSE [done |-> TRUE, value |-> None]

AfterNoneRewinds(tag, h) == [tag |-> tag, rd |-> [h EXCEPT !.pos = 0]]

AfterNoneFails(tag, h) == [tag |-> "Err", rd |-> h]

\* ReadDir::next, the arm None => return None: *self is not assigned, the
\* reader keeps its tag and its handle.
AfterNone(tag, h) == [tag |-> tag, rd |-> h]

Init ==
    /\ fs \in [Paths -> Statuses]
    /\ self = [r \in Readers |-> "Unborn"]
    /\ rd = [r \in Readers |-> NoHandle]
    /\ pc = [r \in Readers |-> "idle"]
    /\ ret = [r \in Readers |-> NotCalled]
    /\ out = [r \in Readers |-> <<>>]
    /\ reads = [r \in Readers |-> 0]
    /\ ended = [r \in Readers |-> FALSE]
    /\ again = [r \in Readers |-> FALSE]
    /\ openRes = [r \in Readers |-> "-"]

\* What a returned value adds to the entries produced so far.
Produced(o, v) == IF v.kind = "Some" THEN Append(o, v.val) ELSE o

\* read_dir(path): a new reader r.  On success the handle will deliver
\* some raw listing l.
ReadDirCall(r, p) ==
    /\ self[r] = "Unborn"
    /\ LET res == OsOpen(fs[p]) IN
       /\ openRes' = [openRes EXCEPT ![r] = res]
       /\ self' = [self EXCEPT ![r] = ReadDirTag(res)]
       /\ IF ReadDirTag(res) = "Ok"
          THEN \E l \in Listings : rd' = [rd EXCEPT ![HandleOf(r)] = NewHandle(l)]
          ELSE rd' = rd
    /\ UNCHANGED <<fs, pc, ret, out, reads, ended, again>>

\* ReadDir::next is entered: the Err arm returns at once, the Ok arm
\* enters the loop.
NextCall(r) ==
    /\ self[r] # "Unborn"
    /\ pc[r] = "idle"
    /\ reads' = [reads EXCEPT ![r] = 0]
    /\ again' = [again EXCEPT ![r] = @ \/ ended[r]]
    /\ IF self[r] = "Err"
       THEN /\ ret' = [ret EXCEPT ![r] = NextOnErr]
            /\ ended' = [ended EXCEPT ![r] = @ \/ NextOnErr.kind = "None"]
            /\ out' = [out EXCEPT ![r] = Produced(@, NextOnErr)]
            /\ pc' = pc
       ELSE /\ pc' = [pc EXCEPT ![r] = "loop"]
            /\ UNCHANGED <<ret, ended, out>>
    /\ UNCHANGED <<fs, self, rd, openRes>>

\* One iteration of the loop of ReadDir::next.
LoopStep(r) ==
    /\ pc[r] = "loop"
    /\ LET n == OsNext(rd[HandleOf(r)])
           m == MatchItem(n.item)
           a == AfterNone(self[r], n.rd)
       IN  /\ reads' = [reads EXCEPT ![r] = @ + 1]
           /\ IF n.item.kind = "None"
              THEN /\ rd' = [rd EXCEPT ![HandleOf(r)] = a.rd]
                   /\ self' = [self EXCEPT ![r] = a.tag]
              ELSE /\ rd' = [rd EXCEPT ![HandleOf(r)] = n.rd]
                   /\ self' = self
           /\ IF m.done
              THEN /\ pc' = [pc EXCEPT ![r] = "idle"]
                   /\ ret' = [ret EXCEPT ![r] = m.value]
                   /\ out' = [out EXCEPT ![r] = Produced(@, m.value)]
                   /\ ended' = [ended EXCEPT ![r] = @ \/ m.value.kind = "None"]
              ELSE UNCHANGED <<pc, ret, out, ended>>
    /\ UNCHANGED <<fs, again, openRes>>

\* The file system changes under the readers.
FsChange(p, s) ==
    /\ s # fs[p]
    /\ fs' = [fs EXCEPT ![p] = s]
    /\ UNCHANGED <<self, rd, pc, ret, out, reads, ended, again, openRes>>

Next ==
    \/ \E r \in Readers, p \in Paths : ReadDirCall(r, p)
    \/ \E r \in Readers : NextCall(r)
    \/ \E r \in Readers : LoopStep(r)
    \/ \E p \in Paths, s \in Statuses : FsChange(p, s)

Spec == Init /\ [][Next]_vars

\* One reader, drained by its caller: every call that can be made is made,
\* and a call that has started runs on.
NextOne ==
    \/ \E p \in Paths : ReadDirCall("r1", p)
    \/ NextCall("r1")
    \/ LoopStep("r1")
    \/ \E p \in Paths, s \in Statuses : FsChange(p, s)

DrainSpec ==
    /\ Init
    /\ [][NextOne]_vars
    /\ WF_vars(NextCall("r1"))
    /\ WF_vars(LoopStep("r1"))

TypeOK ==
    /\ fs \in [Paths -> Statuses]
    /\ self \in [Readers -> {"Unborn", "Ok", "Err"}]
    /\ \A r \in Readers : rd[r].slots \in Listings /\ rd[r].pos \in 0..Len(rd[r].slots)
    /\ pc \in [Readers -> {"idle", "loop"}]
    /\ \A r \in Readers : Len(out[r]) <= MaxLen /\ reads[r] \in 0..(MaxLen + 1)
    /\ ended \in [Readers -> BOOLEAN]
    /\ again \in [Readers -> BOOLEAN]
    /\ openRes \in [Readers -> {"-", "ok"} \cup OpenErrors]

----------------------------------------------------------------------------
\* Vocabulary of the properties.

\* The raw listing and the position of reader r's handle.
SlotsOf(r) == rd[HandleOf(r)].slots
PosOf(r) == rd[HandleOf(r)].pos

\* The valid entries of a raw listing, in the order of the listing.
ValidEntries(l) ==
    LET v == SelectSeq(l, LAMBDA s : s.ok)
    IN  [i \in 1..Len(v) |-> v[i].val]

HasError(l) == \E i \in 1..Len(l) : ~l[i].ok

Range(f) == {f[i] : i \in DOMAIN f}

NoDuplicates(f) == \A i, j \in DOMAIN f : i # j => f[i] # f[j]

\* The number of valid entries among the first i slots of l.
CountValid(l, i) == Cardinality({j \in 1..i : l[j].ok})

\* Position i is just past the k-th valid entry of l (the start, for k = 0).
JustPastKth(l, k, i) ==
    IF k = 0 THEN i = 0
    ELSE i \in 1..Len(l) /\ l[i].ok /\ CountValid(l, i) = k

\* The reader has been drained: its last next() returned and said None.
Drained(r) == ended[r] /\ pc[r] = "idle"

----------------------------------------------------------------------------
\* C1: a reader made from a path whose open failed is in the Err state, and
\* it produces no entry and no error, however often next() is called.
C1_FailedOpenYieldsNothing ==
    \A r \in Readers :
        openRes[r] \in OpenErrors =>
            /\ self[r] = "Err"
            /\ out[r] = <<>>
            /\ ret[r].kind \in {"NotCalled", "None"}

C1_Witness ==
    \E r \in Readers : openRes[r] = "ENOTDIR" /\ Drained(r) /\ again[r]

\* C2: a drained reader over a raw listing without per-entry errors has
\* produced exactly the entries of the listing, each of them once.
C2_CleanListingComplete ==
    \A r \in Readers :
        (openRes[r] = "ok" /\ Drained(r) /\ ~HasError(SlotsOf(r))) =>
            /\ Range(out[r]) = {SlotsOf(r)[i].val : i \in 1..Len(SlotsOf(r))}
            /\ Len(out[r]) = Len(SlotsOf(r))
            /\ NoDuplicates(out[r])

C2_Witness ==
    \E r \in Readers :
        /\ openRes[r] = "ok" /\ Drained(r) /\ ~HasError(SlotsOf(r))
        /\ Len(SlotsOf(r)) >= 2 /\ Len(out[r]) >= 2

\* C3: a drained reader has produced exactly the valid entries of its raw
\* listing, in the listing's order: errored slots are skipped and the valid
\* entries after them are still produced.
C3_ErrorsSkippedOrderKept ==
    \A r \in Readers :
        (openRes[r] = "ok" /\ Drained(r)) => out[r] = ValidEntries(SlotsOf(r))

C3_Witness ==
    \E r \in Readers :
        /\ openRes[r] = "ok" /\ Drained(r)
        /\ \E i, j, k \in 1..Len(SlotsOf(r)) :
              /\ i < j /\ j < k
              /\ SlotsOf(r)[i].ok /\ ~SlotsOf(r)[j].ok /\ SlotsOf(r)[k].ok
        /\ Len(out[r]) = 2

\* C4: no operation surfaces an error: a reader is Ok exactly when the open
\* succeeded and Err otherwise, and next() returns None or a valid entry of
\* the raw listing, never an error.
C4_NoErrorSurfaced ==
    \A r \in Readers :
        /\ self[r] # "Unborn" => (self[r] = "Ok" <=> openRes[r] = "ok")
        /\ self[r] # "Unborn" => (self[r] = "Err" <=> openRes[r] \in OpenErrors)
        /\ ret[r].kind \in {"NotCalled", "None", "Some"}
        /\ ret[r].kind = "Some" =>
              \E i \in 1..PosOf(r) : SlotsOf(r)[i] = OkSlot(ret[r].val)

C4_Witness ==
    \E r, q \in Readers :
        /\ openRes[r] = "EACCES" /\ ret[r] = None
        /\ openRes[q] = "ok" /\ pc[q] = "idle" /\ ret[q].kind = "Some"
        /\ \E i \in 1..PosOf(q) : ~SlotsOf(q)[i].ok

\* C5: once next() has returned None, the reader never produces an entry
\* again: every later call returns None and the entries produced stay as
\* they were.
C5_EndIsFinal ==
    [][\A r \in Readers :
          ended[r] => /\ ended'[r]
                      /\ out'[r] = out[r]
                      /\ ret'[r] = None]_vars

C5_Witness ==
    \E r, q \in Readers :
        /\ openRes[r] = "ok" /\ Drained(r) /\ again[r] /\ out[r] # <<>>
        /\ openRes[q] \in OpenErrors /\ Drained(q) /\ again[q]

\* C6: Err is absorbing: a reader in the Err state stays in it, every
\* next() on it returns None and it produces nothing, whatever the file
\* system turns into.
C6_ErrAbsorbing ==
    [][\A r \in Readers :
          self[r] = "Err" => /\ self'[r] = "Err"
                             /\ out'[r] = <<>>
                             /\ ret'[r].kind \in {"NotCalled", "None"}
                             /\ NextCall(r) => ret'[r] = None]_vars

C6_Witness ==
    \E r \in Readers, p \in Paths :
        /\ self[r] = "Err" /\ openRes[r] = "ENOENT" /\ fs[p] = "dir"
        /\ Drained(r) /\ again[r]

\* C7: the sequence is finite: a next() call makes at most one read per
\* remaining slot and one more, and returns; a drained reader has produced
\* at most as many entries as the raw listing has slots, and a reader whose
\* caller keeps calling next() reaches the end.
C7_Finite ==
    /\ [](\A r \in Readers :
             /\ reads[r] <= Len(SlotsOf(r)) + 1
             /\ Len(out[r]) <= Len(SlotsOf(r)))
    /\ (pc["r1"] = "loop") ~> (pc["r1"] = "idle")
    /\ (self["r1"] # "Unborn") ~> Drained("r1")

C7_Witness ==
    /\ openRes["r1"] = "ok" /\ Drained("r1")
    /\ Len(SlotsOf("r1")) = MaxLen /\ HasError(SlotsOf("r1"))
    /\ reads["r1"] >= 2

\* C8, as the specification states it: when the listing ends, the reader
\* goes to the Err state.
C8_EndMakesErr ==
    \A r \in Readers : Drained(r) => self[r] = "Err"

\* C8, as the code has it: when the listing ends, the reader stays Ok with
\* its handle at the end of the listing; every later next() reads the handle
\* once more, is told of the end again and returns None.
C8_EndStaysOk ==
    \A r \in Readers :
        (openRes[r] = "ok" /\ ended[r]) =>
            /\ self[r] = "Ok"
            /\ ret[r] = None
            /\ PosOf(r) = Len(SlotsOf(r))
            /\ (again[r] /\ pc[r] = "idle") => reads[r] = 1

C8_Witness ==
    \E r \in Readers :
        /\ openRes[r] = "ok" /\ Drained(r) /\ again[r]
        /\ self[r] = "Ok" /\ reads[r] = 1 /\ Len(SlotsOf(r)) >= 1

\* C9: reading is lazy: read_dir reads no slot, and next() reads no further
\* than the entry it returns: after k entries the handle is just past the
\* k-th valid entry, and whatever else has been read are errored slots.
C9_Lazy ==
    \A r \in Readers :
        self[r] = "Ok" =>
            /\ (ret[r] = NotCalled /\ pc[r] = "idle") => PosOf(r) = 0
            /\ (pc[r] = "idle" /\ ~ended[r]) =>
                  JustPastKth(SlotsOf(r), Len(out[r]), PosOf(r))
            /\ \E i \in 0..PosOf(r) :
                  /\ JustPastKth(SlotsOf(r), Len(out[r]), i)
                  /\ \A j \in (i + 1)..PosOf(r) : ~SlotsOf(r)[j].ok

C9_Witness ==
    \E r \in Readers :
        /\ self[r] = "Ok" /\ pc[r] = "idle" /\ ~ended[r]
        /\ Len(out[r]) = 1 /\ PosOf(r) = 2 /\ Len(SlotsOf(r)) = 3
        /\ SlotsOf(r)[3].ok

\* C10: readers are independent: a step of next() on one reader leaves
\* every other reader as it was, and under any interleaving a reader has
\* produced the valid entries among the slots its own handle has read.
C10_Independent ==
    /\ [][\A r, q \in Readers :
             (r # q /\ (NextCall(r) \/ LoopStep(r))) =>
                 /\ self'[q] = self[q]
                 /\ rd'[HandleOf(q)] = rd[HandleOf(q)]
                 /\ out'[q] = out[q]
                 /\ ret'[q] = ret[q]
                 /\ pc'[q] = pc[q]]_vars
    /\ [](\A r \in Readers :
             self[r] = "Ok" =>
                 out[r] = ValidEntries(SubSeq(SlotsOf(r), 1, PosOf(r))))

C10_Witness ==
    /\ self["r1"] = "Ok" /\ self["r2"] = "Ok"
    /\ PosOf("r1") = 1 /\ PosOf("r2") = 3
    /\ pc["r1"] = "loop" /\ pc["r2"] = "loop"
    /\ out["r1"] # <<>> /\ Len(out["r2"]) = 2
====
